---- MODULE Spec2Model ----
(***************************************************************************)
(* MealShare backend (backend/server.js, backend/database.js).             *)
(*                                                                         *)
(* The state is the sqlite database (users, meals, reservations and the    *)
(* connection's last insert rowid), the wall clock, the bearer tokens the  *)
(* server has signed, and the HTTP requests with the position each has     *)
(* reached in its chain of callbacks.  Every db.run / db.get / db.all is   *)
(* one atomic step (sqlite runs a statement in its own implicit            *)
(* transaction); between two statements of one request the statements of   *)
(* other requests may run.                                                 *)
(*                                                                         *)
(* Time is counted in days.  created_at is CURRENT_TIMESTAMP at the moment *)
(* of the INSERT, datetime('now', '-3 days') is evaluated at the moment    *)
(* the SELECT runs.                                                        *)
(***************************************************************************)
EXTENDS Integers, Sequences, FiniteSets, TLC

\* ---------------------------------------------------------------- bounds
MaxReqs == 2
MaxTime == 1
MaxFaults == 1
MaxPortions == 2

\* ------------------------------------------------------ program constants
CooldownDays == 3
ExpiresInDays == 7

VARIABLES users, meals, reservations, lastRowid, now, issued, reqs, faults

vars == <<users, meals, reservations, lastRowid, now, issued, reqs, faults>>

\* ------------------------------------------------------------ pure helpers
Range(s) == {s[i] : i \in DOMAIN s}

\* bcrypt.hash(password, 10): a one-way image of the password.
BcryptHash(password) == [alg |-> "bcrypt", of |-> password]

\* A comparison that accepts any password.
BcryptCompareAnyPassword(password, hash) == hash.alg = "bcrypt"

\* bcrypt.compare(password, hash)
BcryptCompare(password, hash) == hash = BcryptHash(password)

\* jwt.sign({id, email, role}, JWT_SECRET, {expiresIn: "7d"}) at time t.
JwtSign(user, t) ==
    [id |-> user.id, email |-> user.email, role |-> user.role,
     exp |-> t + ExpiresInDays, sig |-> "server"]

\* jwt.verify that checks the signature only.
JwtVerifyIgnoringExpiry(token, t) == token.sig = "server"

\* jwt.verify(token, JWT_SECRET): the signature is the server's and the
\* token has not expired (expired once the clock has reached exp).
JwtVerify(token, t) == token.sig = "server" /\ t < token.exp

\* userData handed to the verify callback: the claims the token embeds.
Claims(token) == [id |-> token.id, email |-> token.email, role |-> token.role]

\* authHeader && authHeader.split(" ")[1].  A header is given by the number
\* of space-separated parts it has (0: no Authorization header) and the
\* credential in its second part ({} when that part is missing or empty).
\* The scheme word in the first part is never looked at.
HeaderToken(hdr) == IF hdr.parts >= 2 THEN hdr.cred ELSE {}

\* authenticateToken: the response it sends itself, status 0 when it calls
\* next().
AuthStatus(hdr, t) ==
    IF HeaderToken(hdr) = {} THEN 401
    ELSE IF \E tok \in HeaderToken(hdr) : ~JwtVerify(tok, t) THEN 403
    ELSE 0

\* req.user after authenticateToken ({} when next() was not called).
AuthUser(hdr, t) ==
    IF AuthStatus(hdr, t) = 0 THEN {Claims(tok) : tok \in HeaderToken(hdr)}
    ELSE {}

\* SELECT * FROM reservations WHERE user_id = ? AND created_at >
\* datetime('now', '-3 days') ORDER BY created_at DESC LIMIT 1
\* The window one day short.
RecentMatchesShortWindow(userId, t) ==
    {row \in Range(reservations) :
        row.user_id = userId /\ row.created_at > t - CooldownDays + 1}

\* The window with its boundary included.
RecentMatchesInclusive(userId, t) ==
    {row \in Range(reservations) :
        row.user_id = userId /\ row.created_at >= t - CooldownDays}

RecentMatches(userId, t) ==
    {row \in Range(reservations) :
        row.user_id = userId /\ row.created_at > t - CooldownDays}

RecentReservation(userId, t) ==
    LET m == RecentMatches(userId, t)
    IN  IF m = {} THEN {}
        ELSE {CHOOSE row \in m :
                \A o \in m : o.created_at < row.created_at
                             \/ (o.created_at = row.created_at /\ o.id >= row.id)}

\* SELECT * FROM meals WHERE id = ?
MealById(mealId) == {row \in Range(meals) : row.id = mealId}

\* The UPDATE without its WHERE clause.
DecrementAllPortions(mealId) ==
    [i \in DOMAIN meals |-> [meals[i] EXCEPT !.portions_available = @ - 1]]

\* UPDATE meals SET portions_available = portions_available - 1 WHERE id = ?
DecrementPortions(mealId) ==
    [i \in DOMAIN meals |->
        IF meals[i].id = mealId
        THEN [meals[i] EXCEPT !.portions_available = @ - 1]
        ELSE meals[i]]

\* INTEGER PRIMARY KEY AUTOINCREMENT on a table rows are never deleted from.
NextId(table) == Len(table) + 1

\* ------------------------------------------------------------- responses
\* res.status(status).json(...): the error text, or the rows of the body.
Resp(status, error) == [status |-> status, error |-> error, data |-> <<>>]

Ok(status, data) == [status |-> status, error |-> "", data |-> data]

NoResp == Resp(0, "")

AuthError(status) ==
    IF status = 401 THEN Resp(401, "Missing token.") ELSE Resp(403, "Invalid token.")

Forbidden == Resp(403, "Only regular users can reserve meals.")

CooldownActive == Resp(400, "You can only reserve one meal every 3 days.")

NotFound == Resp(404, "Meal not found.")

SoldOut == Resp(400, "No portions left for this meal.")

DatabaseError == Resp(500, "Database error.")

\* --------------------------------------------------------------- requests
\* A reservation row is complete once the request that inserted it has
\* answered 201, or when it was in the database before the process started.
Inserted(kind, id) ==
    \E r \in DOMAIN reqs : reqs[r].kind = kind /\ reqs[r].rowId = id

Completed(row) ==
    \/ ~Inserted("reserve", row.id)
    \/ \E r \in DOMAIN reqs :
          reqs[r].kind = "reserve" /\ reqs[r].rowId = row.id /\ reqs[r].resp.status = 201

\* The request as express hands it to the route: headers, req.user as left
\* by authenticateToken, params.id, body; found is the row the login query
\* returned.  The other fields are history, not program state, and are kept
\* for the reserve requests of users: rowId is the row the request inserted;
\* cool, its user had a complete reservation younger than the cooldown when
\* the request arrived; cooled, its user had no reservation younger than the
\* cooldown then; open, the meal it names existed with a portion left then;
\* alone, no other request has been in flight since it arrived; passed, the
\* pickup_time of the meal it names was earlier than the clock then.
NewReq(kind, hdr, user, mealId, body) ==
    LET kept == kind = "reserve" /\ \E u \in user : u.role = "user"
    IN  [kind |-> kind, pc |-> "done", hdr |-> hdr, user |-> user,
         mealId |-> mealId, body |-> body, found |-> {}, rowId |-> 0,
         cool |-> /\ kept
                  /\ \E u \in user : \E row \in Range(reservations) :
                        /\ row.user_id = u.id
                        /\ Completed(row)
                        /\ now - row.created_at < CooldownDays,
         cooled |-> /\ kept
                    /\ \A u \in user : \A row \in Range(reservations) :
                          row.user_id = u.id => now - row.created_at >= CooldownDays,
         open |-> /\ kept
                  /\ \E m \in Range(meals) : m.id = mealId /\ m.portions_available > 0,
         alone |-> kept /\ \A r \in DOMAIN reqs : reqs[r].pc = "done",
         passed |-> /\ kept
                    /\ \E m \in Range(meals) : m.id = mealId /\ m.pickup_time < now,
         resp |-> NoResp]

\* express accepts request q; the requests in flight are alone no more.
Accept(q) ==
    reqs' = Append([r \in DOMAIN reqs |->
                      IF reqs[r].pc # "done" THEN [reqs[r] EXCEPT !.alone = FALSE]
                      ELSE reqs[r]], q)

NoHeader == [parts |-> 0, cred |-> {}]

Pending(r) == r \in DOMAIN reqs /\ reqs[r].pc # "done"

CanStart == Len(reqs) < MaxReqs

Db == <<users, meals, reservations, lastRowid>>

\* ------------------------------------------------- POST /meals/:id/reserve
\* authenticateToken, then the handler up to the first db.get.
ReserveRequest(hdr, mealId) ==
    /\ CanStart
    /\ LET q == NewReq("reserve", hdr, AuthUser(hdr, now), mealId, <<>>)
           a == AuthStatus(hdr, now)
       IN  Accept(
            IF a # 0 THEN [q EXCEPT !.resp = AuthError(a)]
            ELSE IF \E u \in q.user : u.role # "user"
                 THEN [q EXCEPT !.resp = Forbidden]
                 ELSE [q EXCEPT !.pc = "recent"])
    /\ UNCHANGED <<Db, now, issued, faults>>

\* db.get(recentReservationSql) and its callback.
ReserveRecent(r) ==
    /\ Pending(r) /\ reqs[r].kind = "reserve" /\ reqs[r].pc = "recent"
    /\ LET userId == (CHOOSE u \in reqs[r].user : TRUE).id
           recent == RecentReservation(userId, now)
       IN  reqs' = [reqs EXCEPT ![r] =
              IF recent # {}
              THEN [@ EXCEPT !.pc = "done", !.resp = CooldownActive]
              ELSE [@ EXCEPT !.pc = "meal"]]
    /\ UNCHANGED <<Db, now, issued, faults>>

\* The callback taking the portion before it tests the portions.
ReserveMealTakingPortion(r) ==
    /\ Pending(r) /\ reqs[r].kind = "reserve" /\ reqs[r].pc = "meal"
    /\ LET meal == MealById(reqs[r].mealId)
       IN  /\ meals' = DecrementPortions(reqs[r].mealId)
           /\ reqs' = [reqs EXCEPT ![r] =
                IF meal = {}
                THEN [@ EXCEPT !.pc = "done", !.resp = NotFound]
                ELSE IF \E m \in meal : m.portions_available <= 0
                     THEN [@ EXCEPT !.pc = "done", !.resp = SoldOut]
                     ELSE [@ EXCEPT !.pc = "insert"]]
    /\ UNCHANGED <<users, reservations, lastRowid, now, issued, faults>>

\* The callback testing the portions before the row.
ReserveMealPortionsFirst(r) ==
    /\ Pending(r) /\ reqs[r].kind = "reserve" /\ reqs[r].pc = "meal"
    /\ LET meal == MealById(reqs[r].mealId)
       IN  reqs' = [reqs EXCEPT ![r] =
              IF \A m \in meal : m.portions_available <= 0
              THEN [@ EXCEPT !.pc = "done", !.resp = SoldOut]
              ELSE [@ EXCEPT !.pc = "insert"]]
    /\ UNCHANGED <<Db, now, issued, faults>>

\* db.get(mealSql) and its callback.
ReserveMeal(r) ==
    /\ Pending(r) /\ reqs[r].kind = "reserve" /\ reqs[r].pc = "meal"
    /\ LET meal == MealById(reqs[r].mealId)
       IN  reqs' = [reqs EXCEPT ![r] =
              IF meal = {}
              THEN [@ EXCEPT !.pc = "done", !.resp = NotFound]
              ELSE IF \E m \in meal : m.portions_available <= 0
                   THEN [@ EXCEPT !.pc = "done", !.resp = SoldOut]
                   ELSE [@ EXCEPT !.pc = "insert"]]
    /\ UNCHANGED <<Db, now, issued, faults>>

\* db.run(insertSql) and its callback.
ReserveInsert(r) ==
    /\ Pending(r) /\ reqs[r].kind = "reserve" /\ reqs[r].pc = "insert"
    /\ LET userId == (CHOOSE u \in reqs[r].user : TRUE).id
           id     == NextId(reservations)
       IN  /\ reservations' = Append(reservations,
                [id |-> id, user_id |-> userId, meal_id |-> reqs[r].mealId,
                 created_at |-> now])
           /\ lastRowid' = id
           /\ reqs' = [reqs EXCEPT ![r] = [@ EXCEPT !.pc = "update", !.rowId = id]]
    /\ UNCHANGED <<users, meals, now, issued, faults>>

\* db.run(updateSql) and its callback; this.lastID there is the UPDATE
\* statement's, i.e. the connection's last insert rowid when it ran.
ReserveUpdate(r) ==
    /\ Pending(r) /\ reqs[r].kind = "reserve" /\ reqs[r].pc = "update"
    /\ meals' = DecrementPortions(reqs[r].mealId)
    /\ reqs' = [reqs EXCEPT ![r] =
         [@ EXCEPT !.pc = "done",
                   !.resp = Ok(201, <<[id |-> lastRowid,
                                       user_id |-> (CHOOSE u \in reqs[r].user : TRUE).id,
                                       meal_id |-> reqs[r].mealId]>>)]]
    /\ UNCHANGED <<users, reservations, lastRowid, now, issued, faults>>

\* -------------------------------------------------------------- POST /meals
\* !title || !portions_available || !pickup_time
MealBodyInvalid(body) ==
    body.title = "" \/ body.portions_available = 0 \/ body.pickup_time = 0

\* The handler without its role check.
CreateMealRequestAnyRole(hdr, body) ==
    /\ CanStart
    /\ LET q == NewReq("createMeal", hdr, AuthUser(hdr, now), 0, body)
           a == AuthStatus(hdr, now)
       IN  Accept(
            IF a # 0 THEN [q EXCEPT !.resp = AuthError(a)]
            ELSE IF MealBodyInvalid(body)
                 THEN [q EXCEPT !.resp =
                         Resp(400, "Title, portions and pickup_time are required.")]
                 ELSE [q EXCEPT !.pc = "insertMeal"])
    /\ UNCHANGED <<Db, now, issued, faults>>

\* authenticateToken, then the handler up to db.run.
CreateMealRequest(hdr, body) ==
    /\ CanStart
    /\ LET q == NewReq("createMeal", hdr, AuthUser(hdr, now), 0, body)
           a == AuthStatus(hdr, now)
       IN  Accept(
            IF a # 0 THEN [q EXCEPT !.resp = AuthError(a)]
            ELSE IF \E u \in q.user : u.role # "merchant"
                 THEN [q EXCEPT !.resp = Resp(403, "Only merchants can create meals.")]
                 ELSE IF MealBodyInvalid(body)
                      THEN [q EXCEPT !.resp =
                              Resp(400, "Title, portions and pickup_time are required.")]
                      ELSE [q EXCEPT !.pc = "insertMeal"])
    /\ UNCHANGED <<Db, now, issued, faults>>

\* db.run(INSERT INTO meals ...) and its callback.  created keeps the
\* portions the meal was created with (history, not a column).
CreateMealInsert(r) ==
    /\ Pending(r) /\ reqs[r].kind = "createMeal" /\ reqs[r].pc = "insertMeal"
    /\ LET id     == NextId(meals)
           userId == (CHOOSE u \in reqs[r].user : TRUE).id
           body   == reqs[r].body
       IN  /\ meals' = Append(meals,
                [id |-> id, merchant_id |-> userId, title |-> body.title,
                 created |-> body.portions_available,
                 portions_available |-> body.portions_available,
                 pickup_time |-> body.pickup_time, created_at |-> now])
           /\ lastRowid' = id
           /\ reqs' = [reqs EXCEPT ![r] =
                [@ EXCEPT !.pc = "done", !.rowId = id,
                          !.resp = Ok(201, <<[id |-> id, merchant_id |-> userId,
                                              portions_available |-> body.portions_available]>>)]]
    /\ UNCHANGED <<users, reservations, now, issued, faults>>

\* ------------------------------------------------------------ POST /register
\* !name || !email || !password
RegisterBodyInvalid(body) == body.name = "" \/ body.email = "" \/ body.password = ""

\* role === "merchant" ? "merchant" : "user"
UserRole(role) == IF role = "merchant" THEN "merchant" ELSE "user"

\* The handler and the bcrypt.hash callback, up to db.run.
RegisterRequest(body) ==
    /\ CanStart
    /\ LET q == NewReq("register", NoHeader, {}, 0, body)
       IN  Accept(
            IF RegisterBodyInvalid(body)
            THEN [q EXCEPT !.resp = Resp(400, "Name, email and password are required.")]
            ELSE [q EXCEPT !.pc = "insertUser"])
    /\ UNCHANGED <<Db, now, issued, faults>>

\* The INSERT on a table whose email column is not UNIQUE.
RegisterInsertNoUnique(r) ==
    /\ Pending(r) /\ reqs[r].kind = "register" /\ reqs[r].pc = "insertUser"
    /\ LET body == reqs[r].body
           id   == NextId(users)
       IN  /\ users' = Append(users,
                [id |-> id, name |-> body.name, email |-> body.email,
                 password_hash |-> BcryptHash(body.password),
                 role |-> UserRole(body.role)])
           /\ lastRowid' = id
           /\ reqs' = [reqs EXCEPT ![r] =
                [@ EXCEPT !.pc = "done", !.rowId = id,
                          !.resp = Ok(201, <<[id |-> id, name |-> body.name,
                                              email |-> body.email,
                                              role |-> UserRole(body.role)]>>)]]
    /\ UNCHANGED <<meals, reservations, now, issued, faults>>

\* db.run(INSERT INTO users ...) and its callback; email is UNIQUE.
RegisterInsert(r) ==
    /\ Pending(r) /\ reqs[r].kind = "register" /\ reqs[r].pc = "insertUser"
    /\ LET body == reqs[r].body
           id   == NextId(users)
       IN  IF \E u \in Range(users) : u.email = body.email
           THEN /\ reqs' = [reqs EXCEPT ![r] =
                     [@ EXCEPT !.pc = "done",
                               !.resp = Resp(400, "Email is already registered.")]]
                /\ UNCHANGED <<users, lastRowid>>
           ELSE /\ users' = Append(users,
                     [id |-> id, name |-> body.name, email |-> body.email,
                      password_hash |-> BcryptHash(body.password),
                      role |-> UserRole(body.role)])
                /\ lastRowid' = id
                /\ reqs' = [reqs EXCEPT ![r] =
                     [@ EXCEPT !.pc = "done", !.rowId = id,
                               !.resp = Ok(201, <<[id |-> id, name |-> body.name,
                                                   email |-> body.email,
                                                   role |-> UserRole(body.role)]>>)]]
    /\ UNCHANGED <<meals, reservations, now, issued, faults>>

\* --------------------------------------------------------------- POST /login
\* !email || !password
LoginBodyInvalid(body) == body.email = "" \/ body.password = ""

\* SELECT * FROM users WHERE email = ?
UserByEmail(email) == {u \in Range(users) : u.email = email}

LoginRequest(body) ==
    /\ CanStart
    /\ LET q == NewReq("login", NoHeader, {}, 0, body)
       IN  Accept(
            IF LoginBodyInvalid(body)
            THEN [q EXCEPT !.resp = Resp(400, "Email and password are required.")]
            ELSE [q EXCEPT !.pc = "find"])
    /\ UNCHANGED <<Db, now, issued, faults>>

\* db.get(sql, [email]) and its callback, then the bcrypt.compare callback:
\* the token is signed when the comparison has answered.
LoginFind(r) ==
    /\ Pending(r) /\ reqs[r].kind = "login" /\ reqs[r].pc = "find"
    /\ LET found == UserByEmail(reqs[r].body.email)
       IN  reqs' = [reqs EXCEPT ![r] =
              IF found = {}
              THEN [@ EXCEPT !.pc = "done", !.resp = Resp(400, "User not found.")]
              ELSE [@ EXCEPT !.pc = "compare", !.found = found]]
    /\ UNCHANGED <<Db, now, issued, faults>>

LoginCompare(r) ==
    /\ Pending(r) /\ reqs[r].kind = "login" /\ reqs[r].pc = "compare"
    /\ LET user == CHOOSE u \in reqs[r].found : TRUE
       IN  IF ~BcryptCompare(reqs[r].body.password, user.password_hash)
           THEN /\ reqs' = [reqs EXCEPT ![r] =
                     [@ EXCEPT !.pc = "done", !.resp = Resp(400, "Incorrect password.")]]
                /\ UNCHANGED issued
           ELSE /\ issued' = issued \cup {JwtSign(user, now)}
                /\ reqs' = [reqs EXCEPT ![r] =
                     [@ EXCEPT !.pc = "done", !.resp = Ok(200, <<JwtSign(user, now)>>)]]
    /\ UNCHANGED <<Db, now, faults>>

\* ---------------------------------------------------------------- GET /meals
\* users.name of the merchant, for the INNER JOIN.
MerchantOf(meal) == {u \in Range(users) : u.id = meal.merchant_id}

Joined == {m \in Range(meals) : MerchantOf(m) # {}}

WithMerchantName(meal) ==
    [id |-> meal.id, merchant_id |-> meal.merchant_id,
     portions_available |-> meal.portions_available, created_at |-> meal.created_at,
     merchant_name |-> (CHOOSE u \in MerchantOf(meal) : TRUE).name]

\* ORDER BY meals.created_at ASC.
RECURSIVE OrderByCreatedAtAsc(_)
OrderByCreatedAtAsc(rows) ==
    IF rows = {} THEN <<>>
    ELSE LET first == CHOOSE m \in rows :
                        \A o \in rows : \/ o.created_at > m.created_at
                                        \/ (o.created_at = m.created_at /\ o.id >= m.id)
         IN  <<WithMerchantName(first)>> \o OrderByCreatedAtAsc(rows \ {first})

\* ORDER BY meals.created_at DESC: rows of equal created_at come in the
\* order the scan meets them, by rowid.
RECURSIVE OrderByCreatedAtDesc(_)
OrderByCreatedAtDesc(rows) ==
    IF rows = {} THEN <<>>
    ELSE LET first == CHOOSE m \in rows :
                        \A o \in rows : \/ o.created_at < m.created_at
                                        \/ (o.created_at = m.created_at /\ o.id >= m.id)
         IN  <<WithMerchantName(first)>> \o OrderByCreatedAtDesc(rows \ {first})

\* The route has no authenticateToken: the headers are not looked at.
ListMealsRequest(hdr) ==
    /\ CanStart
    /\ Accept([NewReq("listMeals", hdr, {}, 0, <<>>) EXCEPT !.pc = "all"])
    /\ UNCHANGED <<Db, now, issued, faults>>

\* db.all(sql, []) and its callback.
ListMealsAll(r) ==
    /\ Pending(r) /\ reqs[r].kind = "listMeals" /\ reqs[r].pc = "all"
    /\ reqs' = [reqs EXCEPT ![r] =
         [@ EXCEPT !.pc = "done", !.resp = Ok(200, OrderByCreatedAtDesc(Joined))]]
    /\ UNCHANGED <<Db, now, issued, faults>>

\* ------------------------------------------------------------ environment
\* A failed statement whose callback sends no response.
StorageFaultUnanswered(r) ==
    /\ Pending(r)
    /\ reqs[r].pc \notin {"compare", "hung"}
    /\ faults < MaxFaults
    /\ faults' = faults + 1
    /\ reqs' = [reqs EXCEPT ![r] = [@ EXCEPT !.pc = "hung"]]
    /\ UNCHANGED <<Db, now, issued>>

\* A statement fails (SQLITE_BUSY, SQLITE_IOERR, SQLITE_FULL, ...): nothing
\* is written and the callback's error branch answers 500.
StorageFault(r) ==
    /\ Pending(r)
    /\ reqs[r].pc # "compare"
    /\ faults < MaxFaults
    /\ faults' = faults + 1
    /\ reqs' = [reqs EXCEPT ![r] = [@ EXCEPT !.pc = "done", !.resp = DatabaseError]]
    /\ UNCHANGED <<Db, now, issued>>

Tick ==
    /\ now < MaxTime
    /\ now' = now + 1
    /\ UNCHANGED <<Db, issued, reqs, faults>>

\* ------------------------------------------------------------------ inputs
\* Tokens signed with another key.
Forged ==
    {[id |-> 1, email |-> "a", role |-> "merchant", exp |-> ExpiresInDays, sig |-> "other"]}

Headers ==
    {[parts |-> n, cred |-> {}] : n \in 0..1}
    \cup {[parts |-> 2, cred |-> {tok}] : tok \in issued \cup Forged}

\* params.id and the body are used only behind the role check: one value
\* stands for all where the request is turned away before it.  Meal id
\* Len(meals) + 1 is a meal that does not exist; pickup_time 0 a missing one.
MealIds(hdr) ==
    IF \E u \in AuthUser(hdr, now) : u.role = "user"
    THEN 1..(Len(meals) + 1)
    ELSE {1}

MealBodies(hdr) ==
    IF \E u \in AuthUser(hdr, now) : u.role = "merchant"
    THEN {[title |-> "t", portions_available |-> p, pickup_time |-> k] :
             p \in {-1, 0, MaxPortions}, k \in {now + 1}}
         \cup {[title |-> "", portions_available |-> 1, pickup_time |-> now + 1]}
    ELSE {[title |-> "t", portions_available |-> 1, pickup_time |-> now + 1]}

\* role "admin" stands for any role that is not "merchant".
RegisterBodies ==
    {[name |-> "D", email |-> "d", password |-> "pd", role |-> ro] :
        ro \in {"merchant", "admin"}}
    \cup {[name |-> "D", email |-> e, password |-> "pd", role |-> "admin"] : e \in {"a", ""}}

LoginBodies ==
    {[email |-> "a", password |-> pw] : pw \in {"pa", "no", ""}}
    \cup {[email |-> "zz", password |-> "pa"]}

\* ------------------------------------------------------------------- init
\* The database file ./mealshare.db outlives the process: the state after
\* construction is what earlier requests left.  Two users and a merchant
\* are registered; the merchant published meal 1 two days ago with 2
\* portions, to be picked up the day after, and user 2 reserved one of them
\* the same day.  User 1 and the merchant hold a token
\* from a login today, user 2 one from a login five days ago, and the
\* merchant still has the token of a login a week ago.
InitUsers ==
    <<[id |-> 1, name |-> "A", email |-> "a", password_hash |-> BcryptHash("pa"),
       role |-> "user"],
      [id |-> 2, name |-> "B", email |-> "b", password_hash |-> BcryptHash("pb"),
       role |-> "user"],
      [id |-> 3, name |-> "C", email |-> "c", password_hash |-> BcryptHash("pc"),
       role |-> "merchant"]>>

\* GET /meals comes without a header or with user 1's token.
ListHeaders == {NoHeader, [parts |-> 2, cred |-> {JwtSign(InitUsers[1], 0)}]}

Init ==
    /\ users = InitUsers
    /\ meals = <<[id |-> 1, merchant_id |-> 3, title |-> "t", created |-> 2,
                  portions_available |-> 1, pickup_time |-> -1, created_at |-> -2]>>
    /\ reservations = <<[id |-> 1, user_id |-> 2, meal_id |-> 1, created_at |-> -2]>>
    /\ lastRowid = 0
    /\ now = 0
    /\ issued = {JwtSign(InitUsers[1], 0), JwtSign(InitUsers[2], -5),
                 JwtSign(InitUsers[3], 0), JwtSign(InitUsers[3], -ExpiresInDays)}
    /\ reqs = <<>>
    /\ faults = 0

\* The routes that write the database, the storage faults and the clock.
Next ==
    \/ \E hdr \in Headers : \E mealId \in MealIds(hdr) : ReserveRequest(hdr, mealId)
    \/ \E r \in DOMAIN reqs : ReserveRecent(r)
    \/ \E r \in DOMAIN reqs : ReserveMeal(r)
    \/ \E r \in DOMAIN reqs : ReserveInsert(r)
    \/ \E r \in DOMAIN reqs : ReserveUpdate(r)
    \/ \E hdr \in Headers : \E body \in MealBodies(hdr) : CreateMealRequest(hdr, body)
    \/ \E r \in DOMAIN reqs : CreateMealInsert(r)
    \/ \E body \in RegisterBodies : RegisterRequest(body)
    \/ \E r \in DOMAIN reqs : RegisterInsert(r)
    \/ \E r \in DOMAIN reqs : StorageFault(r)
    \/ Tick

Spec == Init /\ [][Next]_vars

\* The routes that write meals and reservations, for the termination of
\* a reserve request: what it reads is written by these alone.
NextMeals ==
    \/ \E hdr \in Headers : \E mealId \in MealIds(hdr) : ReserveRequest(hdr, mealId)
    \/ \E r \in DOMAIN reqs : ReserveRecent(r)
    \/ \E r \in DOMAIN reqs : ReserveMeal(r)
    \/ \E r \in DOMAIN reqs : ReserveInsert(r)
    \/ \E r \in DOMAIN reqs : ReserveUpdate(r)
    \/ \E hdr \in Headers : \E body \in MealBodies(hdr) : CreateMealRequest(hdr, body)
    \/ \E r \in DOMAIN reqs : CreateMealInsert(r)
    \/ \E r \in DOMAIN reqs : StorageFault(r)
    \/ Tick

\* The statement request r has issued completes, with a result or an error.
Completes(r) ==
    \/ ReserveRecent(r) \/ ReserveMeal(r) \/ ReserveInsert(r) \/ ReserveUpdate(r)
    \/ CreateMealInsert(r)
    \/ StorageFault(r)

\* sqlite answers every statement it was handed: node-sqlite3 calls the
\* callback of each db.get / db.run once the statement has run or failed.
FairSpec ==
    Init /\ [][NextMeals]_vars /\ \A r \in 1..MaxReqs : WF_vars(Completes(r))

\* All routes: the above with POST /login and GET /meals, which only read
\* the database.
NextAll ==
    \/ Next
    \/ \E body \in LoginBodies : LoginRequest(body)
    \/ \E r \in DOMAIN reqs : LoginFind(r)
    \/ \E r \in DOMAIN reqs : LoginCompare(r)
    \/ \E hdr \in ListHeaders : ListMealsRequest(hdr)
    \/ \E r \in DOMAIN reqs : ListMealsAll(r)

SpecAll == Init /\ [][NextAll]_vars

\* ----------------------------------------------------------------- claims
Done(r) == reqs[r].pc = "done"

Reserves == {r \in DOMAIN reqs : reqs[r].kind = "reserve"}

Status(r) == reqs[r].resp.status

RowsOfMeal(mealId) == {row \in Range(reservations) : row.meal_id = mealId}

\* Reservations of the meal that were there before the process started.
EarlierRows(mealId) == {row \in RowsOfMeal(mealId) : ~Inserted("reserve", row.id)}

UserId(r) == (CHOOSE u \in reqs[r].user : TRUE).id

Succeeded(mealId) == {r \in Reserves : reqs[r].mealId = mealId /\ Status(r) = 201}

\* C1: no oversell.  A meal offered with P portions is never reserved by
\* more than P users: the distinct users answered 201 for it, together with
\* the reservations it already had, never exceed the portions it was created
\* with, whatever the interleaving of the requests' statements (with one
\* portion left and two requests of two users, never two successes).
NoOversell ==
    \A m \in Range(meals) :
        m.created >= 0 =>
            Cardinality({UserId(r) : r \in Succeeded(m.id)})
                + Cardinality(EarlierRows(m.id)) <= m.created

\* C2: portions_available of a meal that was created with a non-negative
\* number of portions is >= 0 in every reachable state: the decrement is only
\* applied to a meal that has a portion left at the moment of the write.
PortionsNeverNegative ==
    \A m \in Range(meals) : m.created >= 0 => m.portions_available >= 0

\* C3: cooldown under concurrency.  No user has two reservation rows whose
\* created_at are less than 3 days apart.
CooldownRespected ==
    \A a, b \in Range(reservations) :
        (a.user_id = b.user_id /\ a.id # b.id /\ a.created_at <= b.created_at)
            => b.created_at - a.created_at >= CooldownDays

\* C4: the commit is atomic.  In every state another request can read, every
\* reservation row has its decrement (the portions handed out equal the rows
\* of the meal), and a request that ended on a storage error left no row.
AtomicCommit ==
    /\ \A m \in Range(meals) :
          m.created - m.portions_available = Cardinality(RowsOfMeal(m.id))
    /\ \A r \in Reserves : Status(r) = 500 => reqs[r].rowId = 0

\* C5: a reserve request answered 201 returns the reservation it created:
\* the id in the response is the id of the row this request inserted, and
\* that row carries the request's user and meal.
ReturnsCreatedReservation ==
    \A r \in Reserves :
        Status(r) = 201 =>
            /\ reqs[r].resp.data[1].id = reqs[r].rowId
            /\ \E row \in Range(reservations) :
                  /\ row.id = reqs[r].resp.data[1].id
                  /\ row.user_id = reqs[r].resp.data[1].user_id
                  /\ row.meal_id = reqs[r].resp.data[1].meal_id

\* ------------------------------------------------------ steps of a request
\* The request this step has accepted, if any.
Arrived == IF Len(reqs') > Len(reqs) THEN {reqs'[Len(reqs')]} ELSE {}

\* Request r ran a statement in this step and the statement did not fail.
Stepped(r) == reqs'[r].pc # reqs[r].pc /\ faults' = faults

Answered(r, resp) == reqs'[r].pc = "done" /\ reqs'[r].resp = resp

Moved(r, pc) == reqs'[r].pc = pc /\ reqs'[r].resp = NoResp

InCooldown(userId) ==
    \E row \in Range(reservations) :
        row.user_id = userId /\ now - row.created_at < CooldownDays

MealExists(mealId) == \E i \in DOMAIN meals : meals[i].id = mealId

PortionsLeft(mealId) ==
    \E i \in DOMAIN meals : meals[i].id = mealId /\ meals[i].portions_available > 0

\* C6: the checks of a reserve request run in the order role, cooldown, meal
\* existence, availability, and the first check that fails decides the
\* answer.  A token of another role is answered Forbidden on arrival, before
\* any query; the cooldown query answers CooldownActive for a user in
\* cooldown whatever the meal, and only otherwise is the meal looked up; the
\* meal query answers NotFound for a missing meal, SoldOut for one without
\* portions, and only otherwise is the INSERT issued; the tables are written
\* by a request only behind these checks.
ChecksInOrder ==
    [][/\ \A q \in Arrived :
             (q.kind = "reserve" /\ q.user # {}) =>
                 IF \E u \in q.user : u.role # "user"
                 THEN q.pc = "done" /\ q.resp = Forbidden
                 ELSE q.pc = "recent" /\ q.resp = NoResp
       /\ \A r \in Reserves :
             Stepped(r) =>
                 CASE reqs[r].pc = "recent" ->
                        IF InCooldown(UserId(r))
                        THEN Answered(r, CooldownActive)
                        ELSE Moved(r, "meal")
                   [] reqs[r].pc = "meal" ->
                        IF ~MealExists(reqs[r].mealId) THEN Answered(r, NotFound)
                        ELSE IF ~PortionsLeft(reqs[r].mealId) THEN Answered(r, SoldOut)
                        ELSE Moved(r, "insert")
                   [] reqs[r].pc = "insert" ->
                        Moved(r, "update") /\ Len(reservations') = Len(reservations) + 1
                   [] OTHER -> reqs[r].pc = "update" /\ reqs'[r].resp.status = 201
       /\ (reservations' # reservations) =>
             \E r \in Reserves : reqs[r].pc = "insert" /\ Stepped(r)
       /\ (\E i \in DOMAIN meals : meals'[i] # meals[i]) =>
             \E r \in Reserves : reqs[r].pc = "update" /\ Stepped(r)]_vars

\* A user in cooldown who asked for a meal that does not exist was answered
\* CooldownActive, and a merchant was answered Forbidden.
ChecksInOrderWitness ==
    /\ \E r \in Reserves :
          reqs[r].resp = CooldownActive /\ ~MealExists(reqs[r].mealId)
    /\ \E r \in Reserves : reqs[r].resp = Forbidden

\* Request r was the only one in flight from its arrival to its answer.
Alone(r) == reqs[r].alone /\ Done(r)

\* C7 as stated: once a reservation of user U is complete, every later
\* reserve request of U that arrives less than 3 days after the
\* reservation's created_at is answered CooldownActive (unless a statement
\* of it fails, which answers 500).
CooldownFromArrival ==
    \A r \in Reserves :
        (Done(r) /\ reqs[r].cool /\ Status(r) # 500
                 /\ \E u \in reqs[r].user : u.role = "user")
            => reqs[r].resp = CooldownActive

\* C7, amended: once a reservation of user U is complete, every reserve
\* request of U whose cooldown query runs less than 3 days after the
\* reservation's created_at is answered CooldownActive by that query.
CooldownFromQuery ==
    [][\A r \in Reserves :
          (/\ reqs[r].pc = "recent"
           /\ Stepped(r)
           /\ \E row \in Range(reservations) :
                 /\ row.user_id = UserId(r)
                 /\ Completed(row)
                 /\ now - row.created_at < CooldownDays)
              => Answered(r, CooldownActive)]_vars

\* User U reserved with success, and a request of U that arrived after that
\* was answered CooldownActive.
CooldownFromQueryWitness ==
    \E a, b \in Reserves :
        /\ a < b
        /\ Status(a) = 201
        /\ reqs[b].cool /\ Alone(b)
        /\ reqs[b].user = reqs[a].user
        /\ reqs[b].resp = CooldownActive

Genuine(tok) == tok \in issued /\ now < tok.exp

Protected(q) == q.kind \in {"reserve", "createMeal"}

\* C9: role authorization.  POST /meals with a verified token whose role is
\* not merchant is answered 403 on arrival and POST /meals/:id/reserve with
\* one whose role is not user likewise, the database is left as it was and
\* an answered request does nothing more; so a meal row is only inserted by
\* the request of a merchant token and a reservation row inserted, or a
\* portion taken, only by the request of a user token.
RoleAuthorization ==
    [][/\ \A q \in Arrived :
             (/\ q.user # {}
              /\ \/ q.kind = "createMeal" /\ \E u \in q.user : u.role # "merchant"
                 \/ q.kind = "reserve" /\ \E u \in q.user : u.role # "user")
                => q.pc = "done" /\ q.resp.status = 403 /\ q.rowId = 0 /\ Db' = Db
       /\ \A r \in DOMAIN reqs : Done(r) => reqs'[r] = reqs[r]
       /\ (meals' # meals) =>
             \E r \in DOMAIN reqs :
                /\ reqs'[r].pc # reqs[r].pc
                /\ \/ /\ reqs[r].kind = "createMeal"
                      /\ \E u \in reqs[r].user : u.role = "merchant"
                      /\ Len(meals') = Len(meals) + 1
                      /\ meals'[Len(meals')].merchant_id = UserId(r)
                   \/ /\ reqs[r].kind = "reserve"
                      /\ \E u \in reqs[r].user : u.role = "user"
       /\ (reservations' # reservations) =>
             \E r \in Reserves :
                /\ reqs'[r].pc # reqs[r].pc
                /\ \E u \in reqs[r].user : u.role = "user"
                /\ reservations'[Len(reservations')].user_id = UserId(r)]_vars

\* A user was refused POST /meals and a merchant was refused a reservation.
RoleAuthorizationWitness ==
    /\ \E r \in DOMAIN reqs :
          /\ reqs[r].kind = "createMeal" /\ Status(r) = 403
          /\ \E u \in reqs[r].user : u.role = "user"
    /\ \E r \in Reserves :
          /\ Status(r) = 403
          /\ \E u \in reqs[r].user : u.role = "merchant"

\* C10: authentication gating.  On the protected routes a request without a
\* credential is answered 401 "Missing token." and one whose token is not
\* the server's or has expired 403 "Invalid token."; either is answered on
\* arrival, with req.user unset and the database and the tokens as they
\* were.  A request is let through only with a genuine token, and req.user
\* is then the {id, email, role} that token embeds.
AuthenticationGating ==
    [][\A q \in Arrived :
          Protected(q) =>
             /\ (q.hdr.parts < 2 \/ q.hdr.cred = {}) =>
                   /\ q.pc = "done" /\ q.resp = AuthError(401) /\ q.user = {}
                   /\ Db' = Db /\ issued' = issued
             /\ \A tok \in q.hdr.cred :
                   IF q.hdr.parts >= 2 /\ Genuine(tok)
                   THEN /\ q.user = {[id |-> tok.id, email |-> tok.email, role |-> tok.role]}
                        /\ q.resp # AuthError(401) /\ q.resp # AuthError(403)
                   ELSE /\ q.pc = "done" /\ q.resp = AuthError(403) /\ q.user = {}
                        /\ Db' = Db /\ issued' = issued]_vars

\* One request came without a credential, one with an expired token of the
\* server's.
AuthenticationGatingWitness ==
    /\ \E r \in DOMAIN reqs : Protected(reqs[r]) /\ reqs[r].resp = AuthError(401)
    /\ \E r \in DOMAIN reqs :
          /\ Protected(reqs[r]) /\ reqs[r].resp = AuthError(403)
          /\ reqs[r].hdr.cred \subseteq issued

Registers == {r \in DOMAIN reqs : reqs[r].kind = "register"}

DuplicateEmail == Resp(400, "Email is already registered.")

UniqueEmails ==
    \A i, j \in DOMAIN users : users[i].email = users[j].email => i = j

\* C11: email uniqueness.  No two rows of users share an email, in every
\* state; the INSERT of a register request whose email is already stored
\* answers 400 "Email is already registered." and leaves the users table as
\* it was, and any other INSERT that does not fail adds the one row of the
\* request; so of two register requests for the same email that are in
\* flight together at most one is answered 201 and one user is created.
EmailUniqueness ==
    [][/\ UniqueEmails /\ UniqueEmails'
       /\ \A r \in Registers :
             (reqs[r].pc = "insertUser" /\ Stepped(r)) =>
                 IF \E u \in Range(users) : u.email = reqs[r].body.email
                 THEN Answered(r, DuplicateEmail) /\ users' = users
                 ELSE /\ reqs'[r].resp.status = 201
                      /\ Len(users') = Len(users) + 1
                      /\ users'[Len(users')].email = reqs[r].body.email
                      /\ \A i \in DOMAIN users : users'[i] = users[i]
       /\ \A a, b \in Registers :
             (a # b /\ reqs'[a].body.email = reqs'[b].body.email)
                 => ~(reqs'[a].resp.status = 201 /\ reqs'[b].resp.status = 201)]_vars

\* Two register requests for the same new email were in flight together (the
\* one that arrived first ran its INSERT second): the later one created the
\* user, the earlier one was answered 400, and one row has the email.
EmailUniquenessWitness ==
    \E a, b \in Registers :
        /\ b < a
        /\ reqs[a].body.email = reqs[b].body.email
        /\ Status(a) = 201
        /\ reqs[b].resp = DuplicateEmail
        /\ Cardinality({i \in DOMAIN users : users[i].email = reqs[a].body.email}) = 1

CreateMeals == {r \in DOMAIN reqs : reqs[r].kind = "createMeal"}

\* C12: every meal stored by POST /meals has portions_available >= 0.  For
\* every integer a merchant submits as portions_available, the request is
\* either answered 400 with nothing stored, or it stores a meal whose
\* portions_available is >= 0 (a request whose INSERT failed aside).
StoredPortionsNonNegative ==
    \A r \in CreateMeals :
        (/\ Done(r) /\ Status(r) # 500
         /\ \E u \in reqs[r].user : u.role = "merchant")
            => \/ Status(r) = 400 /\ reqs[r].rowId = 0
               \/ /\ Status(r) = 201
                  /\ \E m \in Range(meals) : m.id = reqs[r].rowId /\ m.created >= 0

Logins == {r \in DOMAIN reqs : reqs[r].kind = "login"}

\* The stored users the credentials of the body are those of.
Matching(body) ==
    {u \in Range(users) :
        u.email = body.email /\ u.password_hash = BcryptHash(body.password)}

\* C13: login answers 200 exactly when a user with the email of the body is
\* stored and the password of the body matches that user's stored hash; the
\* 200 carries a token of the server's that embeds the id, email and role of
\* that stored user.  An unknown email or a password that does not match is
\* answered 400 without a token (as is a body without email or password), a
\* token is issued by nothing but a login answered 200, and no step of a
\* login changes the database.
LoginIffCredentialsMatch ==
    [][/\ \A q \in Arrived :
             q.kind = "login" =>
                 /\ Db' = Db /\ issued' = issued
                 /\ q.pc = "done" =>
                       q.resp.status = 400 /\ q.resp.data = <<>> /\ Matching(q.body) = {}
       /\ \A r \in Logins :
             Stepped(r) =>
                 /\ Db' = Db
                 /\ IF reqs'[r].pc # "done"
                    THEN /\ reqs[r].pc = "find" /\ issued' = issued
                         /\ \E u \in Range(users) : u.email = reqs[r].body.email
                    ELSE IF Matching(reqs[r].body) # {}
                         THEN /\ reqs'[r].resp.status = 200
                              /\ issued' = issued \cup {reqs'[r].resp.data[1]}
                              /\ \E u \in Matching(reqs[r].body) :
                                    LET tok == reqs'[r].resp.data[1]
                                    IN  /\ tok.id = u.id /\ tok.email = u.email
                                        /\ tok.role = u.role
                                        /\ tok.sig = "server" /\ tok.exp > now
                         ELSE /\ reqs'[r].resp.status = 400
                              /\ reqs'[r].resp.data = <<>>
                              /\ issued' = issued
       /\ (issued' # issued) =>
             \E r \in Logins : Stepped(r) /\ reqs'[r].resp.status = 200]_vars

\* One login with the stored password was answered 200, one for the same
\* email with another password 400.
LoginIffCredentialsMatchWitness ==
    \E a, b \in Logins :
        /\ reqs[a].body.email = reqs[b].body.email
        /\ Status(a) = 200 /\ reqs[a].resp.data[1] \in issued
        /\ reqs[b].resp = Resp(400, "Incorrect password.")

Lists == {r \in DOMAIN reqs : reqs[r].kind = "listMeals"}

\* C14: GET /meals, with or without a token, is answered 200 with every
\* stored meal exactly once, each row carrying the name of the user its
\* merchant_id names, the rows ordered by created_at descending (the most
\* recently created first); the request is admitted whatever its headers and
\* no step of it changes the database.
ListsEveryMeal ==
    [][/\ \A q \in Arrived :
             q.kind = "listMeals" => q.pc = "all" /\ Db' = Db /\ issued' = issued
       /\ \A r \in Lists :
             Stepped(r) =>
                 LET rows == reqs'[r].resp.data
                 IN  /\ reqs'[r].resp.status = 200
                     /\ Db' = Db
                     /\ Len(rows) = Len(meals)
                     /\ \A m \in Range(meals) :
                           \E i \in DOMAIN rows :
                              /\ rows[i].id = m.id
                              /\ rows[i].merchant_id = m.merchant_id
                              /\ rows[i].portions_available = m.portions_available
                              /\ rows[i].created_at = m.created_at
                              /\ \E u \in Range(users) :
                                    u.id = m.merchant_id /\ rows[i].merchant_name = u.name
                     /\ \A i, j \in DOMAIN rows :
                           i < j => rows[i].created_at >= rows[j].created_at]_vars

\* A request that came with a token was answered with two meals, the one
\* created later (of the higher id) first.
ListsEveryMealWitness ==
    \E r \in Lists :
        /\ Status(r) = 200 /\ reqs[r].hdr # NoHeader
        /\ Len(reqs[r].resp.data) >= 2
        /\ reqs[r].resp.data[1].created_at > reqs[r].resp.data[2].created_at
        /\ reqs[r].resp.data[1].id > reqs[r].resp.data[2].id

\* C15: conservation of portions.  In every state where no reserve request
\* is in flight, for every meal the portions handed out (those it was
\* created with less those it has) equal the number of its reservation rows,
\* and that equals the number of reserve requests for it answered 201 (the
\* rows of before the process started counting as such).
PortionsConserved ==
    (\A r \in Reserves : Done(r)) =>
        \A m \in Range(meals) :
            /\ m.created - m.portions_available = Cardinality(RowsOfMeal(m.id))
            /\ Cardinality(RowsOfMeal(m.id))
                  = Cardinality(EarlierRows(m.id)) + Cardinality(Succeeded(m.id))

Rejections == {Forbidden, CooldownActive, NotFound, SoldOut}

\* The statement a request runs after the one at pc, when that one went well.
Later(pc) ==
    CASE pc = "recent" -> {"meal", "done"}
      [] pc = "meal"   -> {"insert", "done"}
      [] pc = "insert" -> {"update", "done"}
      [] OTHER         -> {"done"}

\* C16: a rejected reserve request has no effect.  A reserve request is
\* answered Forbidden, CooldownActive, NotFound or SoldOut only on arrival or
\* by its cooldown query or its meal query; it runs its statements in the
\* order cooldown query, meal query, INSERT, UPDATE, and neither its arrival
\* nor either query changes the reservations table or any meal: a request
\* that ends rejected has inserted no row and decremented no portion.
RejectedHasNoEffect ==
    [][/\ \A q \in Arrived :
             q.kind = "reserve" =>
                 /\ reservations' = reservations /\ meals' = meals
                 /\ q.rowId = 0
       /\ \A r \in Reserves :
             (reqs'[r].pc # reqs[r].pc) =>
                 /\ reqs'[r].pc \in Later(reqs[r].pc)
                 /\ reqs[r].pc \in {"recent", "meal"} =>
                       /\ reservations' = reservations /\ meals' = meals
                       /\ reqs'[r].rowId = 0
                 /\ reqs'[r].resp \in Rejections =>
                       /\ reqs[r].pc \in {"recent", "meal"}
                       /\ reservations' = reservations /\ meals' = meals]_vars

\* Meal 1 had one portion: one request took it, another was answered SoldOut
\* and the tables show the effect of the first alone.
RejectedHasNoEffectWitness ==
    \E a, b \in Reserves :
        /\ Status(a) = 201 /\ reqs[a].mealId = 1
        /\ reqs[b].resp = SoldOut /\ reqs[b].mealId = 1 /\ reqs[b].rowId = 0
        /\ Len(reservations) = 2
        /\ \E m \in MealById(1) : m.portions_available = 0

\* The stored columns of a meal (created is history).
Columns(m) ==
    [id |-> m.id, merchant_id |-> m.merchant_id, title |-> m.title,
     portions_available |-> m.portions_available, pickup_time |-> m.pickup_time,
     created_at |-> m.created_at]

\* C17: sole writer, append-only.  A step changes a stored meal only when
\* it is the UPDATE of a reserve request, and then it lowers
\* portions_available of the meal the request names by exactly 1 and leaves
\* every other meal and every other column as it was; apart from that the
\* meals table only gets the row a POST /meals appends.  The reservations
\* and the users tables only get rows appended: no row of them is ever
\* changed or deleted, by any route.
SoleWriterAppendOnly ==
    [][/\ Len(meals') \in {Len(meals), Len(meals) + 1}
       /\ \A i \in DOMAIN meals :
             \/ meals'[i] = meals[i]
             \/ /\ Columns(meals'[i])
                      = [Columns(meals[i]) EXCEPT !.portions_available = @ - 1]
                /\ Len(meals') = Len(meals)
                /\ \A j \in DOMAIN meals : j # i => meals'[j] = meals[j]
                /\ \E r \in Reserves :
                      /\ reqs[r].pc = "update" /\ Stepped(r)
                      /\ reqs[r].mealId = meals[i].id
       /\ Len(reservations') \in {Len(reservations), Len(reservations) + 1}
       /\ \A i \in DOMAIN reservations : reservations'[i] = reservations[i]
       /\ Len(users') \in {Len(users), Len(users) + 1}
       /\ \A i \in DOMAIN users : users'[i] = users[i]]_vars

\* With two meals stored, a reservation made since the start took a portion
\* of one of them and the other has all of its.
SoleWriterAppendOnlyWitness ==
    \E a, b \in Range(meals) :
        /\ a.id # b.id
        /\ a.portions_available = a.created
        /\ \E r \in Reserves :
              /\ Status(r) = 201 /\ reqs[r].mealId = b.id
              /\ b.created - b.portions_available = Cardinality(RowsOfMeal(b.id))
              /\ Cardinality(RowsOfMeal(b.id)) > Cardinality(EarlierRows(b.id))

\* C18 as stated, its list of answers: every reserve request that was
\* answered was answered 201, 400, 403, 404 or 500.
AnswersOneOfFive ==
    \A r \in Reserves : Done(r) => Status(r) \in {201, 400, 403, 404, 500}

\* C18, amended: every reserve request is eventually answered, once.  When
\* every statement handed to the storage completes (with a result or an
\* error), each POST /meals/:id/reserve is answered 201, 400, 401, 403, 404
\* or 500; it has no response before that, the response it got is never
\* replaced by another and it runs nothing after it, and a statement that
\* fails answers 500.
ReserveTerminates ==
    /\ []<>(\A r \in Reserves :
                Done(r) /\ Status(r) \in {201, 400, 401, 403, 404, 500})
    /\ [][\A r \in Reserves :
             /\ ~Done(r) => reqs[r].resp = NoResp
             /\ Done(r) => reqs'[r].pc = "done" /\ reqs'[r].resp = reqs[r].resp
             /\ (reqs'[r].pc # reqs[r].pc /\ faults' # faults)
                   => Answered(r, DatabaseError)]_vars

\* One reserve request was answered 500 after a statement of it failed,
\* another went through its four statements and was answered 201; none is
\* left in flight.
ReserveTerminatesWitness ==
    /\ faults > 0
    /\ \A r \in DOMAIN reqs : Done(r)
    /\ \E r \in Reserves : Status(r) = 500
    /\ \E r \in Reserves : Status(r) = 201

\* C19: a reservation is admitted only for a meal whose pickup_time has not
\* passed.  No reserve request is answered 201 for a meal whose pickup_time
\* was earlier than the clock when the request arrived.
PickupTimeNotPassed ==
    \A r \in Reserves : Status(r) = 201 => ~reqs[r].passed

\* C20: referential integrity.  In every reachable state the merchant_id
\* of every meal is the id of a stored user whose role is merchant, the
\* user_id of every reservation is the id of a stored user whose role is
\* user, and its meal_id is the id of a stored meal.
ReferentialIntegrity ==
    /\ \A m \in Range(meals) :
          \E u \in Range(users) : u.id = m.merchant_id /\ u.role = "merchant"
    /\ \A row \in Range(reservations) :
          /\ \E u \in Range(users) : u.id = row.user_id /\ u.role = "user"
          /\ \E m \in Range(meals) : m.id = row.meal_id

\* A merchant published a meal and a user reserved a portion of that meal.
ReferentialIntegrityWitness ==
    \E c \in CreateMeals : \E r \in Reserves :
        /\ Status(c) = 201 /\ Status(r) = 201
        /\ reqs[r].mealId = reqs[c].rowId
        /\ \E row \in Range(reservations) :
              row.id = reqs[r].rowId /\ row.meal_id = reqs[c].rowId

====
